---- MODULE Spec2Model ----
(***************************************************************************)
(* A model of the RIOS Reaper (src/reaper/app.py).                         *)
(*                                                                         *)
(* One invocation is a straight line of blocking calls to four external    *)
(* services (EC2 describe_instances, CloudWatch get_metric_statistics,     *)
(* ECS list_clusters / describe_clusters, SNS publish).  The answers of    *)
(* the services are the "world" variables, fixed by Init; the program      *)
(* variables are the locals of the Python functions and the position pc.   *)
(* Every external call may raise; nothing in app.py catches an exception.  *)
(*                                                                         *)
(* Utilization percentages are floats in the code; only their order with   *)
(* respect to the threshold matters, so they are modelled as integers.     *)
(* Identifiers and messages are strings, concatenated as the code does.     *)
(***************************************************************************)
EXTENDS Integers, Sequences, FiniteSets, TLC

VARIABLES
    \* ---- the world: what the external services hold / answer ----
    ec2Reservations,   \* EC2: all reservations, each a sequence of instances
    ec2PageSize,       \* EC2: reservations per page of a describe_instances answer
    metricData,        \* CloudWatch: InstanceId -> the Datapoints' averages
    ecsClusters,       \* ECS: the clusters, in listing order
    ecsPageSize,       \* ECS: cluster ARNs per page of list_clusters
    topic_arn,         \* os.getenv('SNS_TOPIC_ARN')
    numPeriods,        \* findIdleInstances parameter
    idleThreshold,     \* findIdleInstances parameter
    \* ---- the program ----
    entry,             \* the function that was invoked
    pc,                \* position in the code
    instanceIdList,    \* findIdleInstances: result of findInstancesByTag
    idx,               \* findIdleInstances: 1-based position of the for loop
    idleInstanceList,  \* findIdleInstances: idle instances so far
    cluster_arns,      \* findStoppedClustersByTag: listed ARNs
    batchNo,           \* findStoppedClustersByTag: position in range(0, n, 100)
    matching_clusters, \* findStoppedClustersByTag: matches so far
    result,            \* lambda_handler: the returned dict, or None
    failedAt,          \* the external call that raised, or "none"
    \* ---- what the services saw (the calls made, in order) ----
    metricCalls,       \* InstanceIds passed to get_metric_statistics
    describeCalls,     \* the `clusters` argument of each describe_clusters call
    published          \* the (TopicArn, Message) of each sns.publish call

vars == <<ec2Reservations, ec2PageSize, metricData, ecsClusters, ecsPageSize,
          topic_arn, numPeriods, idleThreshold, entry, pc, instanceIdList, idx,
          idleInstanceList, cluster_arns, batchNo, matching_clusters, result,
          failedAt, metricCalls, describeCalls, published>>

world == <<ec2Reservations, ec2PageSize, metricData, ecsClusters, ecsPageSize,
           topic_arn, numPeriods, idleThreshold, entry>>

None == "None"

\* ------------------------------------------------------------------ bounds
\* Largest number of periods explored by the findIdleInstances specification.
MaxPeriods == 2
\* Largest inventory whose clusters are enumerated freely.
MaxSmallClusters == 2

\* ------------------------------------------------------ program constants
InstanceTagKey == "RIOS-computeworkerinstance"
ClusterTagKey == "RIOS-cluster"
Placeholder == "SNSTopic"
DfltNumPeriods == 12
DfltIdleThreshold == 1
BatchSize == 100

\* ------------------------------------------------------------- sequences
Min(a, b) == IF a < b THEN a ELSE b

RECURSIVE Flatten(_)
\* list.extend applied to every element of a sequence of sequences, in order.
Flatten(ss) == IF ss = <<>> THEN <<>> ELSE Head(ss) \o Flatten(Tail(ss))

Range(s) == {s[i] : i \in DOMAIN s}

\* A sequence cut into consecutive pages of `size` elements (the last shorter);
\* an empty sequence is a single empty page.
Paginate(s, size) ==
    IF s = <<>> THEN << <<>> >>
    ELSE [p \in 1..((Len(s) + size - 1) \div size) |->
              SubSeq(s, (p - 1) * size + 1, Min(p * size, Len(s)))]

\* ------------------------------------------------------------- EC2 service
HasTagKey(tags, key) == \E t \in Range(tags) : t.Key = key

\* describe_instances(Filters=[tag-key]): the reservations that hold a matching
\* instance, each reduced to its matching instances, in pages.
Ec2Matching(tagKey) ==
    LET filtered == [r \in DOMAIN ec2Reservations |->
                        SelectSeq(ec2Reservations[r],
                                  LAMBDA inst : HasTagKey(inst.Tags, tagKey))]
    IN  SelectSeq(filtered, LAMBDA res : res # <<>>)

Ec2Pages(tagKey) == Paginate(Ec2Matching(tagKey), ec2PageSize)

\* The response to the single, token-less describe_instances call of the code.
DescribeInstancesResponse(tagKey) ==
    LET pages == Ec2Pages(tagKey)
    IN  IF Len(pages) > 1
        THEN [Reservations |-> pages[1], NextToken |-> 2]
        ELSE [Reservations |-> pages[1]]

\* findInstancesByTag, lines 53-60: the InstanceIds of response['Reservations'].
InstanceIdsOf(response) ==
    Flatten([r \in DOMAIN response.Reservations |->
                [k \in DOMAIN response.Reservations[r] |->
                    response.Reservations[r][k].InstanceId]])

\* ------------------------------------------------------- idle classification
RECURSIVE MaxOf(_)
\* Python's max() of a non-empty list.
MaxOf(s) == IF Len(s) = 1 THEN s[1]
            ELSE LET m == MaxOf(Tail(s)) IN IF s[1] >= m THEN s[1] ELSE m

\* A classifier that forgets the "full set of periods" test.
isIdleNoLengthCheck(cpuUtilList, nPeriods, threshold) ==
    cpuUtilList # <<>> /\ MaxOf(cpuUtilList) < threshold

\* A classifier that counts a maximum equal to the threshold as idle.
isIdleAtThreshold(cpuUtilList, nPeriods, threshold) ==
    Len(cpuUtilList) = nPeriods /\ MaxOf(cpuUtilList) <= threshold

\* findIdleInstances, lines 36-38.  numPeriods >= 1 throughout: with
\* numPeriods <= 0 the window of getCPUUtilization is empty or reversed.
isIdle(cpuUtilList, nPeriods, threshold) ==
    Len(cpuUtilList) = nPeriods /\ MaxOf(cpuUtilList) < threshold

\* getCPUUtilization, line 86: the averages of the returned datapoints.
getCPUUtilization(instanceId) == metricData[instanceId]

\* ------------------------------------------------------------- ECS service
ClusterArn(i) == "arn:aws:ecs:cluster/c-" \o ToString(i)
ClusterName(i) == "c-" \o ToString(i)

\* The tags a cluster can carry: none, the wanted key under two values (alone or
\* after another tag), or only another key.
TagShapes == {"empty", "key-a", "other+key-b", "other"}
TagsOf(shape, key) ==
    CASE shape = "empty" -> <<>>
      [] shape = "key-a" -> <<[key |-> key, value |-> "a"]>>
      [] shape = "other+key-b" -> <<[key |-> "Name", value |-> "x"],
                                    [key |-> key, value |-> "b"]>>
      [] shape = "other" -> <<[key |-> "Name", value |-> "x"]>>

\* One cluster as describe_clusters(include=['TAGS']) describes it.  tasks < 0
\* leaves runningTasksCount out and shape = "absent" leaves tags out: the code
\* reads both defensively (cluster.get, 'tags' in cluster).
ClusterDescription(i, tasks, shape) ==
    [clusterArn |-> ClusterArn(i), clusterName |-> ClusterName(i)]
    @@ (IF tasks < 0 THEN <<>> ELSE [runningTasksCount |-> tasks])
    @@ (IF shape = "absent" THEN <<>> ELSE [tags |-> TagsOf(shape, ClusterTagKey)])

\* The pages that the list_clusters paginator yields.
ListClustersPages ==
    LET arns == [i \in DOMAIN ecsClusters |-> ecsClusters[i].clusterArn]
    IN  [p \in DOMAIN Paginate(arns, ecsPageSize) |->
            [clusterArns |-> Paginate(arns, ecsPageSize)[p]]]

\* describe_clusters(clusters=batch_arns, include=['TAGS']).
DescribeClustersResponse(batch_arns) ==
    [clusters |-> [k \in DOMAIN batch_arns |->
        CHOOSE c \in Range(ecsClusters) : c.clusterArn = batch_arns[k]]]

\* ---------------------------------------------------------- cluster finder
\* A filter that forgets the running-task count.
ClusterMatchesAnyTaskCount(cluster, tag_key) ==
    /\ "tags" \in DOMAIN cluster
    /\ \E t \in Range(cluster.tags) : t.key = tag_key

\* findStoppedClustersByTag, lines 114-118.
ClusterMatches(cluster, tag_key) ==
    /\ "runningTasksCount" \in DOMAIN cluster
    /\ cluster.runningTasksCount = 0
    /\ "tags" \in DOMAIN cluster
    /\ \E t \in Range(cluster.tags) : t.key = tag_key

\* findStoppedClustersByTag, lines 113-118: the names appended for one response.
MatchesIn(response, tag_key) ==
    LET hit == SelectSeq(response.clusters, LAMBDA c : ClusterMatches(c, tag_key))
    IN  [k \in DOMAIN hit |-> hit[k].clusterName]

NumBatches(n) == (n + BatchSize - 1) \div BatchSize

\* A batch loop that slices one element short (arns[i:i + 99]).
BatchesShortSlice(arns) ==
    [b \in 1..NumBatches(Len(arns)) |->
        SubSeq(arns, (b - 1) * BatchSize + 1, Min(b * BatchSize - 1, Len(arns)))]

\* A batch loop that describes first and tests for more afterwards.
BatchesDescribeFirst(arns) ==
    [b \in 1..(IF arns = <<>> THEN 1 ELSE NumBatches(Len(arns))) |->
        SubSeq(arns, (b - 1) * BatchSize + 1, Min(b * BatchSize, Len(arns)))]

\* findStoppedClustersByTag, lines 101-106: the `clusters` argument of every
\* describe_clusters call, in order; none when nothing was listed.
Batches(arns) ==
    IF arns = <<>> THEN <<>>
    ELSE [b \in 1..NumBatches(Len(arns)) |->
             SubSeq(arns, (b - 1) * BatchSize + 1, Min(b * BatchSize, Len(arns)))]

\* ------------------------------------------------------------------ notifier
RECURSIVE JoinNoSeparator(_, _)
JoinNoSeparator(sep, list) ==
    IF list = <<>> THEN "" ELSE Head(list) \o JoinNoSeparator(sep, Tail(list))

RECURSIVE Join(_, _)
\* Python's sep.join(list).
Join(sep, list) ==
    IF list = <<>> THEN ""
    ELSE IF Len(list) = 1 THEN list[1]
    ELSE Head(list) \o sep \o Join(sep, Tail(list))

\* lambda_handler, lines 152-160.
BuildMessage(idle, stopped) ==
    LET msg1 == IF Len(idle) = 0 THEN "No Idle Instances detected"
                ELSE "The following idle instances were found: " \o Join(",", idle)
    IN  IF Len(stopped) = 0 THEN msg1 \o "\nNo Stopped Clusters found"
        ELSE msg1 \o "\nThe following stopped clusters were found: "
                  \o Join(",", stopped)

\* A handler that publishes whatever SNS_TOPIC_ARN holds.
ShouldPublishAlways(topic) == TRUE

\* lambda_handler, line 147.
ShouldPublish(topic) == topic # Placeholder

\* ------------------------------------------------------------ control flow
\* Where control goes when findIdleInstances returns.
AfterIdlePass == IF entry = "lambda_handler" THEN "listClusters" ELSE "done"
\* Where control goes when findStoppedClustersByTag returns.
AfterClusterPass == IF entry = "lambda_handler" THEN "notify" ELSE "done"

Log(log, op, forOp, arg) == IF op = forOp THEN Append(log, arg) ELSE log

\* An external call that raises but whose exception is caught and logged, the
\* handler going on to the notification.
RaiseSwallowed(op, arg) ==
    /\ pc' = "notify"
    /\ failedAt' = op
    /\ metricCalls' = Log(metricCalls, op, "get_metric_statistics", arg)
    /\ describeCalls' = Log(describeCalls, op, "describe_clusters", arg)
    /\ published' = Log(published, op, "publish", arg)
    /\ UNCHANGED <<world, instanceIdList, idx, idleInstanceList, cluster_arns,
                   batchNo, matching_clusters, result>>

\* An external call raises: app.py has no try/except, so the exception leaves
\* the invoked function and nothing after the call runs.
Raise(op, arg) ==
    /\ pc' = "error"
    /\ failedAt' = op
    /\ metricCalls' = Log(metricCalls, op, "get_metric_statistics", arg)
    /\ describeCalls' = Log(describeCalls, op, "describe_clusters", arg)
    /\ published' = Log(published, op, "publish", arg)
    /\ UNCHANGED <<world, instanceIdList, idx, idleInstanceList, cluster_arns,
                   batchNo, matching_clusters, result>>

\* ------------------------------------------------------------------ actions
\* findIdleInstances, line 29: instanceIdList = findInstancesByTag(...).
FindInstancesByTag ==
    /\ pc = "findInstancesByTag"
    /\ \/ Raise("describe_instances", InstanceTagKey)
       \/ LET ids == InstanceIdsOf(DescribeInstancesResponse(InstanceTagKey))
          IN  /\ instanceIdList' = ids
              /\ idx' = 1
              /\ idleInstanceList' = <<>>
              /\ pc' = IF ids = <<>> THEN AfterIdlePass ELSE "idleLoop"
              /\ UNCHANGED <<world, cluster_arns, batchNo, matching_clusters,
                             result, failedAt, metricCalls, describeCalls,
                             published>>

\* findIdleInstances, lines 32-39: one iteration of the for loop.
IdleLoopStep ==
    /\ pc = "idleLoop"
    /\ LET instanceId == instanceIdList[idx]
       IN  \/ Raise("get_metric_statistics", instanceId)
           \/ LET cpuUtilList == getCPUUtilization(instanceId)
              IN  /\ metricCalls' = Append(metricCalls, instanceId)
                  /\ idleInstanceList' =
                        IF isIdle(cpuUtilList, numPeriods, idleThreshold)
                        THEN Append(idleInstanceList, instanceId)
                        ELSE idleInstanceList
                  /\ idx' = idx + 1
                  /\ pc' = IF idx = Len(instanceIdList) THEN AfterIdlePass
                           ELSE "idleLoop"
                  /\ UNCHANGED <<world, instanceIdList, cluster_arns, batchNo,
                                 matching_clusters, result, failedAt,
                                 describeCalls, published>>

\* findStoppedClustersByTag, lines 95-102: the paginator loop and the test for
\* an empty listing.
ListClusters ==
    /\ pc = "listClusters"
    /\ \/ Raise("list_clusters", None)
       \/ LET arns == Flatten([p \in DOMAIN ListClustersPages |->
                                  ListClustersPages[p].clusterArns])
          IN  /\ cluster_arns' = arns
              /\ matching_clusters' = <<>>
              /\ batchNo' = 1
              /\ pc' = IF Batches(arns) = <<>> THEN AfterClusterPass
                       ELSE "describeLoop"
              /\ UNCHANGED <<world, instanceIdList, idx, idleInstanceList,
                             result, failedAt, metricCalls, describeCalls,
                             published>>

\* findStoppedClustersByTag, lines 105-118: one iteration of the batch loop.
DescribeBatch ==
    /\ pc = "describeLoop"
    /\ LET batch_arns == Batches(cluster_arns)[batchNo]
       IN  \/ Raise("describe_clusters", batch_arns)
           \/ /\ describeCalls' = Append(describeCalls, batch_arns)
              /\ matching_clusters' = matching_clusters \o
                    MatchesIn(DescribeClustersResponse(batch_arns), ClusterTagKey)
              /\ batchNo' = batchNo + 1
              /\ pc' = IF batchNo = Len(Batches(cluster_arns))
                       THEN AfterClusterPass ELSE "describeLoop"
              /\ UNCHANGED <<world, instanceIdList, idx, idleInstanceList,
                             cluster_arns, result, failedAt, metricCalls,
                             published>>

\* lambda_handler, lines 146-161.  An unset SNS_TOPIC_ARN (None) is not the
\* placeholder: publish is called with it, and raises or not as any call may.
Notify ==
    /\ pc = "notify"
    /\ LET call == [TopicArn |-> topic_arn,
                    Message |-> BuildMessage(idleInstanceList, matching_clusters)]
       IN  \/ /\ ShouldPublish(topic_arn)
              /\ Raise("publish", call)
           \/ /\ ShouldPublish(topic_arn)
              /\ published' = Append(published, call)
              /\ pc' = "return"
              /\ UNCHANGED <<world, instanceIdList, idx, idleInstanceList,
                             cluster_arns, batchNo, matching_clusters, result,
                             failedAt, metricCalls, describeCalls>>
           \/ /\ ~ShouldPublish(topic_arn)
              /\ pc' = "return"
              /\ UNCHANGED <<world, instanceIdList, idx, idleInstanceList,
                             cluster_arns, batchNo, matching_clusters, result,
                             failedAt, metricCalls, describeCalls, published>>

\* lambda_handler, line 163.
Return ==
    /\ pc = "return"
    /\ result' = [idle |-> idleInstanceList, stopped |-> matching_clusters]
    /\ pc' = "returned"
    /\ UNCHANGED <<world, instanceIdList, idx, idleInstanceList, cluster_arns,
                   batchNo, matching_clusters, failedAt, metricCalls,
                   describeCalls, published>>

\* ------------------------------------------------------------ initial states
SeqsUpTo(S, n) == UNION {[1..k -> S] : k \in 0..n}
Const(n, v) == [k \in 1..n |-> v]

\* Average CPU percentages: below, at and above the thresholds explored.
UtilValues == 0..2
Thresholds == {1, 2}

Instance(id, tags) == [InstanceId |-> id, Tags |-> tags]
TaggedA == <<[Key |-> InstanceTagKey, Value |-> "a"]>>
TaggedB == <<[Key |-> "Name", Value |-> "x"], [Key |-> InstanceTagKey, Value |-> "b"]>>
OtherTag == <<[Key |-> "Name", Value |-> "x"]>>

AllInstances == UNION {Range(ec2Reservations[r]) : r \in DOMAIN ec2Reservations}
TaggedIds(tagKey) ==
    {inst.InstanceId : inst \in {x \in AllInstances : HasTagKey(x.Tags, tagKey)}}

ProgramInit(e, start) ==
    /\ entry = e
    /\ pc = start
    /\ instanceIdList = <<>>
    /\ idx = 1
    /\ idleInstanceList = <<>>
    /\ cluster_arns = <<>>
    /\ batchNo = 1
    /\ matching_clusters = <<>>
    /\ result = None
    /\ failedAt = "none"
    /\ metricCalls = <<>>
    /\ describeCalls = <<>>
    /\ published = <<>>

\* findIdleInstances called on its own: two instances, each tagged or not, in one
\* or two reservations, on one or two pages; every history of up to
\* numPeriods + 1 samples for the tagged ones.
InitIdle ==
    /\ numPeriods \in 1..MaxPeriods
    /\ idleThreshold \in Thresholds
    /\ \E t1 \in {TaggedA, <<>>}, t2 \in {TaggedB, OtherTag} :
         \E layout \in {"one", "two"} :
            ec2Reservations =
                IF layout = "one"
                THEN << <<Instance("i-1", t1), Instance("i-2", t2)>> >>
                ELSE << <<Instance("i-1", t1)>>, <<Instance("i-2", t2)>> >>
    /\ ec2PageSize \in IF Len(ec2Reservations) = 1 THEN {1} ELSE {1, 2}
    /\ metricData \in [{"i-1", "i-2"} -> SeqsUpTo(UtilValues, numPeriods + 1)]
    /\ \A id \in {"i-1", "i-2"} \ TaggedIds(InstanceTagKey) : metricData[id] = <<>>
    /\ ecsClusters = <<>>
    /\ ecsPageSize = BatchSize
    /\ topic_arn = Placeholder
    /\ ProgramInit("findIdleInstances", "findInstancesByTag")

\* What a cluster can report: a running-task count of 0 or 3 or none, and tags.
ClusterKinds == {0, 3, -1} \X (TagShapes \cup {"absent"})

\* Sizes around the batch boundaries: 99, 100, 101, 200, 201, 250.
LargeSizes == {BatchSize - 1, BatchSize, BatchSize + 1, 2 * BatchSize,
               2 * BatchSize + 1, 2 * BatchSize + BatchSize \div 2}

\* Which clusters of a large inventory are tagged and stopped.
Hit(pattern, i, n) ==
    CASE pattern = "all" -> TRUE
      [] pattern = "none" -> FALSE
      [] pattern = "batchLast" -> i % BatchSize = 0
      [] pattern = "batchFirst" -> i % BatchSize = 1
      [] pattern = "last" -> i = n
      [] pattern = "odd" -> i % 2 = 1

\* findStoppedClustersByTag called on its own: every inventory of up to
\* MaxSmallClusters clusters, and inventories around the batch boundaries in
\* which a pattern of clusters is tagged and stopped.
InitClusters ==
    /\ \/ /\ \E n \in 0..MaxSmallClusters : \E kinds \in [1..n -> ClusterKinds] :
                ecsClusters = [i \in 1..n |->
                                  ClusterDescription(i, kinds[i][1], kinds[i][2])]
          /\ ecsPageSize \in {1, BatchSize}
       \/ /\ \E n \in LargeSizes :
             \E pattern \in {"all", "none", "batchLast", "batchFirst", "last", "odd"} :
             \E other \in {<<3, "key-a">>, <<0, "other">>} :
                ecsClusters = [i \in 1..n |->
                                  IF Hit(pattern, i, n)
                                  THEN ClusterDescription(i, 0, "key-a")
                                  ELSE ClusterDescription(i, other[1], other[2])]
          /\ ecsPageSize \in {60, BatchSize}
    /\ ec2Reservations = <<>>
    /\ ec2PageSize = 1
    /\ metricData = <<>>
    /\ numPeriods = DfltNumPeriods
    /\ idleThreshold = DfltIdleThreshold
    /\ topic_arn = Placeholder
    /\ ProgramInit("findStoppedClustersByTag", "listClusters")

\* Twelve-period histories: idle, at the threshold in the last period, busy in
\* the first period, too short, too long, empty.
Histories ==
    { Const(DfltNumPeriods, 0),
      [Const(DfltNumPeriods, 0) EXCEPT ![DfltNumPeriods] = DfltIdleThreshold],
      [Const(DfltNumPeriods, 0) EXCEPT ![1] = DfltIdleThreshold + 1],
      Const(DfltNumPeriods - 4, 0),
      Const(DfltNumPeriods + 1, 0),
      <<>> }

\* lambda_handler: three tagged instances, up to two clusters, SNS_TOPIC_ARN
\* the placeholder, an ARN or unset; the default policy parameters.
Init ==
    /\ numPeriods = DfltNumPeriods
    /\ idleThreshold = DfltIdleThreshold
    /\ ec2Reservations = << <<Instance("i-1", TaggedA), Instance("i-2", TaggedB)>>,
                            <<Instance("i-3", TaggedA)>> >>
    /\ ec2PageSize = 2
    /\ metricData \in [{"i-1", "i-2", "i-3"} -> Histories]
    /\ metricData["i-3"] \in {Const(DfltNumPeriods, 0), Const(DfltNumPeriods - 4, 0)}
    /\ \E n \in 0..2 :
         \E kinds \in [1..n -> {<<0, "key-a">>, <<3, "other+key-b">>, <<0, "other">>}] :
            ecsClusters = [i \in 1..n |->
                              ClusterDescription(i, kinds[i][1], kinds[i][2])]
    /\ ecsPageSize = BatchSize
    /\ topic_arn \in {Placeholder, "arn:aws:sns:us-west-2:123456789012:reaper", None}
    /\ ProgramInit("lambda_handler", "findInstancesByTag")

\* ------------------------------------------------------------ specifications
NextIdle == FindInstancesByTag \/ IdleLoopStep
NextClusters == ListClusters \/ DescribeBatch
Next == FindInstancesByTag \/ IdleLoopStep \/ ListClusters \/ DescribeBatch
            \/ Notify \/ Return

\* findIdleInstances on its own.
SpecIdle == InitIdle /\ [][NextIdle]_vars
\* findStoppedClustersByTag on its own.
SpecClusters == InitClusters /\ [][NextClusters]_vars
\* One invocation of lambda_handler.
Spec == Init /\ [][Next]_vars

\* ------------------------------------------------------------------ claims
\* The policy of the specification, stated without the code's max(): a full
\* history all of whose samples are below the threshold.
Verdict(id) ==
    /\ Len(metricData[id]) = numPeriods
    /\ \A k \in DOMAIN metricData[id] : metricData[id][k] < idleThreshold

\* The instances the for loop has dealt with so far.
Processed == SubSeq(instanceIdList, 1, idx - 1)

\* The cluster has tags and the tag key is among their keys, under any value.
CarriesTag(c) ==
    /\ "tags" \in DOMAIN c
    /\ ClusterTagKey \in {c.tags[k].key : k \in DOMAIN c.tags}

\* The clusters of the inventory that carry the tag key and report zero tasks.
StoppedAndTagged ==
    {c \in Range(ecsClusters) :
        /\ CarriesTag(c)
        /\ "runningTasksCount" \in DOMAIN c
        /\ c.runningTasksCount = 0}

ComputationCalls == {"describe_instances", "get_metric_statistics",
                     "list_clusters", "describe_clusters"}

\* C1: an instance whose metrics lookup returns fewer than numPeriods samples is
\* never in the idle list, whatever the samples are; a short history raises
\* nothing (the pass only stops on a call that raised) and the pass goes on to
\* look up every instance found.
C1_ShortHistoryNeverIdle ==
    /\ \A id \in DOMAIN metricData :
          Len(metricData[id]) < numPeriods => id \notin Range(idleInstanceList)
    /\ failedAt = "none" => pc # "error"
    /\ pc = "done" => metricCalls = instanceIdList

\* C1 witness: the pass has ended; the first instance had a short, non-empty,
\* all-zero history and is not idle, and the instance after it was classified idle.
C1_Witness ==
    /\ pc = "done"
    /\ instanceIdList = <<"i-1", "i-2">>
    /\ metricData["i-1"] = Const(numPeriods - 1, 0)
    /\ metricData["i-1"] # <<>>
    /\ idleInstanceList = <<"i-2">>

\* C2: the idle list is exactly the instances found and dealt with whose history
\* has numPeriods samples with a maximum strictly below the threshold, in the
\* order found.
C2_IdleListIsVerdict ==
    idleInstanceList = SelectSeq(Processed, Verdict)

\* C2 witness: the pass has ended with one instance idle (full history, maximum
\* below the threshold) and one not idle whose full history peaks exactly at
\* the threshold.
C2_Witness ==
    /\ pc = "done"
    /\ instanceIdList = <<"i-1", "i-2">>
    /\ idleInstanceList = <<"i-1">>
    /\ Len(metricData["i-2"]) = numPeriods
    /\ MaxOf(metricData["i-2"]) = idleThreshold

\* C10 (as claimed): once findInstancesByTag has returned, its result holds the
\* identifier of every instance that carries the tag key, whatever the number of
\* pages of the inventory response.
C10_AllTaggedInstancesFound ==
    (pc # "findInstancesByTag" /\ failedAt # "describe_instances")
        => Range(instanceIdList) = TaggedIds(InstanceTagKey)

\* C3: the result of findStoppedClustersByTag holds a cluster's name if and only
\* if the cluster carries the tag key (under any value) and reports zero running
\* tasks.
C3_StoppedIffTaggedAndZero ==
    pc = "done" =>
        Range(matching_clusters) = {c.clusterName : c \in StoppedAndTagged}

\* C3 witness: a finished call that returned a cluster tagged under value "b"
\* and left out a tagged cluster with three running tasks.
C3_Witness ==
    /\ pc = "done"
    /\ \E c \in StoppedAndTagged :
          /\ c.tags[Len(c.tags)].value = "b"
          /\ c.clusterName \in Range(matching_clusters)
    /\ \E c \in Range(ecsClusters) :
          /\ CarriesTag(c)
          /\ "runningTasksCount" \in DOMAIN c
          /\ c.runningTasksCount = 3
          /\ c.clusterName \notin Range(matching_clusters)

\* C4: every listed cluster (of every page) is described exactly once, in calls
\* of at most BatchSize clusters, all but the last of exactly BatchSize; the
\* result holds every match of every batch, none twice.
C4_BatchesCoverListing ==
    /\ pc # "listClusters" /\ failedAt # "list_clusters" =>
          cluster_arns = [i \in DOMAIN ecsClusters |-> ecsClusters[i].clusterArn]
    /\ Flatten(describeCalls)
          = SubSeq(cluster_arns, 1, Len(Flatten(describeCalls)))
    /\ \A k \in DOMAIN describeCalls :
          /\ Len(describeCalls[k]) \in 1..BatchSize
          /\ k < Len(describeCalls) => Len(describeCalls[k]) = BatchSize
    /\ pc = "done" =>
          /\ Flatten(describeCalls) = cluster_arns
          /\ Cardinality(Range(matching_clusters)) = Len(matching_clusters)
          /\ \A c \in StoppedAndTagged : c.clusterName \in Range(matching_clusters)

\* C4 witness: 250 clusters were listed on pages of 60 and described as
\* 100/100/50, and every one of them is in the result.
C4_Witness ==
    /\ pc = "done"
    /\ ecsPageSize = 60
    /\ Len(cluster_arns) = 2 * BatchSize + BatchSize \div 2
    /\ [k \in DOMAIN describeCalls |-> Len(describeCalls[k])]
          = <<BatchSize, BatchSize, BatchSize \div 2>>
    /\ Len(matching_clusters) = Len(cluster_arns)

\* C5: with no cluster in the inventory describe_clusters is never called, the
\* call fails only if list_clusters raised, and it returns an empty list.
C5_NoClustersNoDescribe ==
    ecsClusters = <<>> =>
        /\ describeCalls = <<>>
        /\ failedAt \in {"none", "list_clusters"}
        /\ pc = "done" => matching_clusters = <<>>

\* C5 witness: a finished call on an empty inventory.
C5_Witness ==
    /\ pc = "done"
    /\ ecsClusters = <<>>
    /\ cluster_arns = <<>>
    /\ failedAt = "none"

RECURSIVE CommaJoined(_, _)
\* The first k identifiers of a list, a comma between neighbours.
CommaJoined(list, k) ==
    IF k = 0 THEN ""
    ELSE IF k = 1 THEN list[1]
    ELSE CommaJoined(list, k - 1) \o "," \o list[k]

Line1(idle) ==
    IF idle = <<>> THEN "No Idle Instances detected"
    ELSE "The following idle instances were found: " \o CommaJoined(idle, Len(idle))

Line2(stopped) ==
    IF stopped = <<>> THEN "No Stopped Clusters found"
    ELSE "The following stopped clusters were found: "
            \o CommaJoined(stopped, Len(stopped))

\* C6: at most one message is published; it goes to the configured topic and is
\* line 1, a newline, line 2, built from the idle list and the stopped list;
\* with both lists empty it is the literal two-line text; the lists returned are
\* the lists of the message.
C6_MessageFormat ==
    /\ Len(published) <= 1
    /\ \A k \in DOMAIN published :
          /\ published[k].TopicArn = topic_arn
          /\ published[k].Message
                = Line1(idleInstanceList) \o "\n" \o Line2(matching_clusters)
          /\ (idleInstanceList = <<>> /\ matching_clusters = <<>>)
                => published[k].Message
                      = "No Idle Instances detected\nNo Stopped Clusters found"
          /\ pc = "returned" =>
                published[k].Message = Line1(result.idle) \o "\n" \o Line2(result.stopped)

\* C6 witness: the invocation returned after publishing the message for two idle
\* instances and one stopped cluster.
C6_Witness ==
    /\ pc = "returned"
    /\ result = [idle |-> <<"i-1", "i-2">>, stopped |-> <<"c-2">>]
    /\ Len(published) = 1
    /\ published[1].Message
          = "The following idle instances were found: i-1,i-2\nThe following stopped clusters were found: c-2"

\* C7: with the placeholder in SNS_TOPIC_ARN nothing is published and publish
\* never raises; the invocation returns the idle list and the stopped list of
\* the policy; with another setting exactly one publish precedes the return.
C7_PlaceholderSkipsPublish ==
    /\ topic_arn = Placeholder => (published = <<>> /\ failedAt # "publish")
    /\ pc \in {"return", "returned"} =>
          /\ failedAt = "none"
          /\ Len(published) = (IF topic_arn = Placeholder THEN 0 ELSE 1)
    /\ pc = "return" => result = None
    /\ pc = "returned" =>
          /\ result.idle = SelectSeq(instanceIdList, Verdict)
          /\ Range(result.stopped) = {c.clusterName : c \in StoppedAndTagged}

\* C7 witness: an invocation with the placeholder that returned a non-empty
\* idle list and a non-empty stopped list without publishing.
C7_Witness ==
    /\ pc = "returned"
    /\ topic_arn = Placeholder
    /\ published = <<>>
    /\ result.idle # <<>>
    /\ result.stopped # <<>>

\* C8: when describe_instances, get_metric_statistics, list_clusters or
\* describe_clusters raises, the invocation ends in an error with no result and
\* nothing published; a publish is only attempted once every instance found has
\* been looked up and every listed cluster described.
C8_ComputationFailureIsFatal ==
    /\ failedAt \in ComputationCalls =>
          (pc = "error" /\ result = None /\ published = <<>>)
    /\ published # <<>> =>
          (metricCalls = instanceIdList /\ Flatten(describeCalls) = cluster_arns)

\* C8 witness: a describe_clusters batch raised after the idle pass had found an
\* idle instance; the invocation is in error with nothing returned or published.
C8_Witness ==
    /\ pc = "error"
    /\ failedAt = "describe_clusters"
    /\ idleInstanceList # <<>>
    /\ result = None
    /\ published = <<>>

\* C9 (as claimed): when sns.publish raises after both lists were computed, the
\* invocation still goes on to return the lists.
C9_DeliveryFailureStillReturns ==
    failedAt = "publish" => pc \in {"return", "returned"}

====
